---------------------------- MODULE Spec2Model ----------------------------
(***************************************************************************)
(* A model of nrtest's NumericCsvResult (src/nrtest/results/csv.py):       *)
(* _identify_format (format sniffing) and compare (the row/cell walk).     *)
(*                                                                         *)
(* Modelling decisions                                                     *)
(*  - A file is a sequence of lines, a line a sequence of one-character    *)
(*    strings (the line terminator is not part of the line).  "NUL" stands *)
(*    for the byte 0, on which the csv reader raises csv.Error.            *)
(*  - compare opens its files in 'rb' mode and hands them to csv.reader,   *)
(*    the Python 2 idiom; the model follows the Python 2 behaviour, where  *)
(*    the reader yields rows of str.                                       *)
(*  - float() is modelled on decimal integers, "inf" and "nan", with an    *)
(*    optional sign and surrounding blanks.  Floats are exact rationals    *)
(*    [k |-> "fin", n, d] plus the IEEE values inf, -inf and nan; rounding *)
(*    is not modelled.                                                     *)
(*  - csv.Sniffer is library code: sniff and has_header are any fixed      *)
(*    function of the sample (the same sample always gets the same         *)
(*    answer), with the delimiter among the candidates that occur in the   *)
(*    sample and skipinitialspace as the sniffer derives it from the first *)
(*    line of the sample.                                                  *)
(***************************************************************************)
EXTENDS Integers, Sequences, FiniteSets, TLC

(***************************************************************************)
(* Bounds of the model.                                                    *)
(***************************************************************************)
MaxLines == 2
MaxPrepend == 1

(***************************************************************************)
(* Floats.                                                                 *)
(***************************************************************************)
RECURSIVE GCD(_, _)
GCD(a, b) == IF b = 0 THEN a ELSE GCD(b, a % b)

AbsInt(n) == IF n < 0 THEN -n ELSE n

Sign(n) == IF n < 0 THEN -1 ELSE IF n = 0 THEN 0 ELSE 1

\* the rational n/d, d > 0, in lowest terms
Fin(n, d) ==
    LET g == GCD(AbsInt(n), d)
    IN  [k |-> "fin", n |-> n \div g, d |-> d \div g]

NaN == [k |-> "nan", n |-> 0, d |-> 1]

\* infinity with the sign of s
Inf(s) == [k |-> "inf", n |-> Sign(s), d |-> 1]

Zero == Fin(0, 1)

\* x == 0
IsZero(x) == x.k = "fin" /\ x.n = 0

\* a - b
FSub(a, b) ==
    IF a.k = "nan" \/ b.k = "nan" THEN NaN
    ELSE IF a.k = "inf"
         THEN IF b.k = "inf" /\ b.n = a.n THEN NaN ELSE a
    ELSE IF b.k = "inf" THEN Inf(-b.n)
    ELSE Fin(a.n * b.d - b.n * a.d, a.d * b.d)

\* a + b
FAdd(a, b) ==
    IF a.k = "nan" \/ b.k = "nan" THEN NaN
    ELSE IF a.k = "inf"
         THEN IF b.k = "inf" /\ b.n # a.n THEN NaN ELSE a
    ELSE IF b.k = "inf" THEN b
    ELSE Fin(a.n * b.d + b.n * a.d, a.d * b.d)

\* a / b, for b # 0
FDiv(a, b) ==
    IF a.k = "nan" \/ b.k = "nan" THEN NaN
    ELSE IF a.k = "inf"
         THEN IF b.k = "inf" THEN NaN ELSE Inf(a.n * b.n)
    ELSE IF b.k = "inf" THEN Zero
    ELSE Fin(a.n * b.d * Sign(b.n), a.d * AbsInt(b.n))

\* abs(a)
FAbs(a) == [a EXCEPT !.n = AbsInt(a.n)]

\* a > b (False when either is nan)
FGt(a, b) ==
    /\ a.k # "nan"
    /\ b.k # "nan"
    /\ IF a.k = "inf" THEN a.n > 0 /\ ~(b.k = "inf" /\ b.n > 0)
       ELSE IF b.k = "inf" THEN b.n < 0
       ELSE a.n * b.d > b.n * a.d

\* a >= b (False when either is nan)
FGe(a, b) == a.k # "nan" /\ b.k # "nan" /\ ~FGt(b, a)

\* Python's max(a, b): b when b > a, else a
PyMax(a, b) == IF FGt(b, a) THEN b ELSE a

\* the literal 999.9
Penalty == Fin(9999, 10)

FAILURE == [max |-> Penalty, avg |-> Penalty]


(***************************************************************************)
(* Text: str.strip, str.split, float().                                    *)
(***************************************************************************)
Range(s) == {s[j] : j \in DOMAIN s}

\* the characters str.strip() and str.split() treat as whitespace
Blank == {" ", "\t", "\n", "\r"}

RECURSIVE LStrip(_)
LStrip(s) == IF s # <<>> /\ Head(s) \in Blank THEN LStrip(Tail(s)) ELSE s

RECURSIVE RStrip(_)
RStrip(s) ==
    IF s # <<>> /\ s[Len(s)] \in Blank THEN RStrip(SubSeq(s, 1, Len(s) - 1)) ELSE s

\* s.strip()
Strip(s) == RStrip(LStrip(s))

\* len(s.split()): the number of maximal runs of non-blank characters
RECURSIVE TokenCount(_, _)
TokenCount(s, inToken) ==
    IF s = <<>> THEN 0
    ELSE IF Head(s) \in Blank THEN TokenCount(Tail(s), FALSE)
    ELSE (IF inToken THEN 0 ELSE 1) + TokenCount(Tail(s), TRUE)

Digits == <<"0", "1", "2", "3", "4", "5", "6", "7", "8", "9">>

DigitVal(c) == (CHOOSE j \in DOMAIN Digits : Digits[j] = c) - 1

RECURSIVE DigitsVal(_, _)
DigitsVal(s, acc) ==
    IF s = <<>> THEN acc ELSE DigitsVal(Tail(s), 10 * acc + DigitVal(Head(s)))

\* float(s): [ok |-> FALSE] stands for ValueError
ParseFloat(s) ==
    LET t    == Strip(s)
        sgn  == IF t # <<>> /\ Head(t) = "-" THEN -1 ELSE 1
        body == IF t # <<>> /\ Head(t) \in {"+", "-"} THEN Tail(t) ELSE t
    IN  IF body # <<>> /\ Range(body) \subseteq Range(Digits)
        THEN [ok |-> TRUE, val |-> Fin(sgn * DigitsVal(body, 0), 1)]
        ELSE IF body = <<"n", "a", "n">> THEN [ok |-> TRUE, val |-> NaN]
        ELSE IF body = <<"i", "n", "f">> THEN [ok |-> TRUE, val |-> Inf(sgn)]
        ELSE [ok |-> FALSE, val |-> Zero]

(***************************************************************************)
(* Dialects and the csv reader.                                            *)
(***************************************************************************)
\* the dialect named 'excel'
Excel == [name |-> "excel", delimiter |-> ",", skipinitialspace |-> FALSE]

Sniffed(delim, skip) ==
    [name |-> "sniffed", delimiter |-> delim, skipinitialspace |-> skip]

\* the fields of one line: blanks at the start of a field are skipped under
\* skipinitialspace, a delimiter ends the field
RECURSIVE Fields(_, _, _, _)
Fields(rest, cur, atStart, dialect) ==
    IF rest = <<>> THEN <<cur>>
    ELSE IF atStart /\ Head(rest) = " " /\ dialect.skipinitialspace
         THEN Fields(Tail(rest), cur, TRUE, dialect)
    ELSE IF Head(rest) = dialect.delimiter
         THEN <<cur>> \o Fields(Tail(rest), <<>>, TRUE, dialect)
    ELSE Fields(Tail(rest), Append(cur, Head(rest)), FALSE, dialect)

\* next(rdr) on one line: csv.Error on a NUL byte, [] for an empty line
ReaderRow(line, dialect) ==
    IF "NUL" \in Range(line) THEN [err |-> TRUE, row |-> <<>>]
    ELSE IF line = <<>> THEN [err |-> FALSE, row |-> <<>>]
    ELSE [err |-> FALSE, row |-> Fields(line, <<>>, TRUE, dialect)]

(***************************************************************************)
(* One cell pair (the body of the for loop of compare).                    *)
(***************************************************************************)
\* Delta without abs(): a signed deviation
DeltaSigned(cell, cell_ref) ==
    IF IsZero(cell) /\ IsZero(cell_ref) THEN Zero
    ELSE IF IsZero(cell_ref) THEN Penalty
    ELSE FDiv(FSub(cell, cell_ref), cell_ref)

\* Delta testing cell_ref == 0 first: 0 against 0 gets the penalty
DeltaZeroRef(cell, cell_ref) ==
    IF IsZero(cell_ref) THEN Penalty
    ELSE FAbs(FDiv(FSub(cell, cell_ref), cell_ref))

\* the relative deviation of two floats
Delta(cell, cell_ref) ==
    IF IsZero(cell) /\ IsZero(cell_ref) THEN Zero
    ELSE IF IsZero(cell_ref) THEN Penalty
    ELSE FAbs(FDiv(FSub(cell, cell_ref), cell_ref))

\* CellStep letting a number against a text pass as a text pair
CellStepSkipMixed(s, s_ref) ==
    LET cell     == ParseFloat(s)
        cell_ref == ParseFloat(s_ref)
    IN  IF cell.ok /\ cell_ref.ok
        THEN [kind |-> "num", delta |-> Delta(cell.val, cell_ref.val),
              msg |-> ""]
        ELSE IF ~cell.ok /\ ~cell_ref.ok /\ Strip(s) # Strip(s_ref)
        THEN [kind |-> "fail", delta |-> Zero, msg |-> "String mismatch"]
        ELSE [kind |-> "str", delta |-> Zero, msg |-> ""]

\* lines 116-144: what one cell pair does: "num" (a deviation to accumulate),
\* "str" (equal strings, nothing accumulated) or "fail" (log msg and return
\* FAILURE)
CellStep(s, s_ref) ==
    LET cell     == ParseFloat(s)
        cell_ref == ParseFloat(s_ref)
    IN  IF cell.ok /\ cell_ref.ok
        THEN [kind |-> "num", delta |-> Delta(cell.val, cell_ref.val),
              msg |-> ""]
        ELSE IF ~cell.ok /\ ~cell_ref.ok
        THEN IF Strip(s) # Strip(s_ref)
             THEN [kind |-> "fail", delta |-> Zero, msg |-> "String mismatch"]
             ELSE [kind |-> "str", delta |-> Zero, msg |-> ""]
        ELSE [kind |-> "fail", delta |-> Zero,
              msg |-> "Incompatible value types"]

(***************************************************************************)
(* _identify_format.                                                       *)
(***************************************************************************)
\* the size of the sample handed to the sniffer
SampleSize == 1024

\* the delimiters the sniffer may pick
Candidates == {",", ":", ";", "\t", " "}

\* HashLines looking at the first line only
HashLinesFirstOnly(file) ==
    IF file # <<>> /\ Head(file) # <<>> /\ Head(Head(file)) = "#" THEN 1 ELSE 0

\* the number of leading lines that begin with '#'
RECURSIVE HashLines(_)
HashLines(file) ==
    IF file # <<>> /\ Head(file) # <<>> /\ Head(Head(file)) = "#"
    THEN 1 + HashLines(Tail(file))
    ELSE 0

\* the text of the lines, each with its line terminator
RECURSIVE Flatten(_)
Flatten(lines) ==
    IF lines = <<>> THEN <<>>
    ELSE Head(lines) \o <<"\n">> \o Flatten(Tail(lines))

Min(a, b) == IF a < b THEN a ELSE b

\* Sample without csvfile.seek(pos): the sample starts at the top of the file
SampleFromStart(file) ==
    LET rest == Flatten(file)
    IN  SubSeq(rest, 1, Min(Len(rest), SampleSize))

\* csvfile.seek(pos); csvfile.read(1024)
Sample(file) ==
    LET rest == Flatten(SubSeq(file, HashLines(file) + 1, Len(file)))
    IN  SubSeq(rest, 1, Min(Len(rest), SampleSize))

\* the first non-empty line of the sample
RECURSIVE FirstLine(_, _)
FirstLine(sample, acc) ==
    IF sample = <<>> THEN acc
    ELSE IF Head(sample) = "\n"
         THEN IF acc = <<>> THEN FirstLine(Tail(sample), acc) ELSE acc
    ELSE FirstLine(Tail(sample), Append(acc, Head(sample)))

\* line.count(d)
RECURSIVE Count(_, _)
Count(line, d) ==
    IF line = <<>> THEN 0
    ELSE (IF Head(line) = d THEN 1 ELSE 0) + Count(Tail(line), d)

\* line.count(d + ' '): occurrences that do not overlap
RECURSIVE CountBeforeSpace(_, _)
CountBeforeSpace(line, d) ==
    IF Len(line) < 2 THEN 0
    ELSE IF line[1] = d /\ line[2] = " "
         THEN 1 + CountBeforeSpace(Tail(Tail(line)), d)
    ELSE CountBeforeSpace(Tail(line), d)

\* the sniffer's skipinitialspace: every delimiter of the first line of the
\* sample is followed by a space
SkipInitialSpace(sample, d) ==
    LET first == FirstLine(sample, <<>>)
    IN  Count(first, d) = CountBeforeSpace(first, d)

\* what Sniffer().sniff(sample, ',:;\t ') may do: raise csv.Error, or return a
\* dialect whose delimiter is a candidate that occurs in the sample
SniffResults(sample) ==
    {[err |-> TRUE, dialect |-> Excel]}
        \cup {[err |-> FALSE,
                dialect |-> Sniffed(d, SkipInitialSpace(sample, d))] :
                 d \in Candidates \cap Range(sample)}

\* what Sniffer().has_header(sample) may do
HasHeaderResults == {"raise", "yes", "no"}

NotSniffed == [sniffed |-> FALSE, dialect |-> Excel, n_header_lines |-> 0]

\* _identify_format without the single-token test
IdentifyFormatNoTokenCheck(file, sn, hh) ==
    LET h == HashLines(file)
    IN  IF sn.err \/ hh = "raise"
        THEN [sniffed |-> TRUE, dialect |-> Excel, n_header_lines |-> h]
        ELSE [sniffed |-> TRUE, dialect |-> sn.dialect,
              n_header_lines |-> IF hh = "yes" THEN h + 1 ELSE h]

\* _identify_format, given the sniffer's answers sn and hh for the sample
IdentifyFormat(file, sn, hh) ==
    LET h == HashLines(file)
    IN  IF TokenCount(Sample(file), FALSE) <= 1
        THEN [sniffed |-> TRUE, dialect |-> Excel, n_header_lines |-> h]
        ELSE IF sn.err \/ hh = "raise"
        THEN [sniffed |-> TRUE, dialect |-> Excel, n_header_lines |-> h]
        ELSE [sniffed |-> TRUE, dialect |-> sn.dialect,
              n_header_lines |-> IF hh = "yes" THEN h + 1 ELSE h]

(***************************************************************************)
(* compare: the decisions of the while loop and the return.                *)
(***************************************************************************)
\* RowStep breaking out of the loop as soon as either side has ended
RowStepBreakOnEof(a, b) ==
    IF a.err THEN "Problem reading"
    ELSE IF b.err THEN "Problem reading ref"
    ELSE IF a.eof \/ b.eof THEN "eof"
    ELSE IF Len(a.row) # Len(b.row) THEN "different # columns"
    ELSE ""

\* lines 84-113: what one pass of the while loop decides once next(rdr) and
\* next(rdr_ref) have answered a and b; "" goes on to the for loop, "eof"
\* breaks out of the loop, anything else is the message logged before
\* return FAILURE
RowStep(a, b) ==
    LET n_eofs == (IF a.eof THEN 1 ELSE 0) + (IF b.eof THEN 1 ELSE 0)
    IN  IF a.err THEN "Problem reading"
        ELSE IF b.err THEN "Problem reading ref"
        ELSE IF n_eofs = 2 THEN "eof"
        ELSE IF n_eofs = 1 THEN "different # rows"
        ELSE IF Len(a.row) # Len(b.row) THEN "different # columns"
        ELSE ""

\* lines 146-148: the mean over the numeric cell pairs
Finish(maxd, sumd, n) ==
    [max |-> maxd, avg |-> IF n > 0 THEN FDiv(sumd, Fin(n, 1)) ELSE sumd]

Closed == [open |-> FALSE, pos |-> 0]

\* the with block opens a handle
Open(pos) == [open |-> TRUE, pos |-> pos]

\* a return that leaves the handle as it is
ExitLeak(handle) == handle

\* leaving the with block (return or exception) closes the handle
Exit(handle) == Closed

\* for _ in range(n_header_lines): next(f)
SkipHeader(file, n_header_lines) ==
    IF n_header_lines > Len(file)
    THEN [stop |-> TRUE, pos |-> Len(file)]
    ELSE [stop |-> FALSE, pos |-> n_header_lines]

(***************************************************************************)
(* Inputs.                                                                 *)
(***************************************************************************)
HashLine == <<"#", "5">>

\* lines for the walk: a comment, a number, text, two columns, a NUL byte
Lines == { HashLine, <<"5">>, <<"a">>, <<"a", ",", "5">>, <<"NUL">> }

\* lines for the accumulators: numbers, inf, text with and without a blank
NumericLines ==
    { <<"0">>, <<"5">>, <<"i", "n", "f">>, <<"a">>, <<" ", "a">> }

\* lines for the deviation of one cell pair
CellLines ==
    { <<"0">>, <<"5">>, <<"1", "0">>, <<"-", "5">>, <<"i", "n", "f">> }

\* lines of a file compared with itself
SelfLines ==
    { HashLine, <<"0">>, <<"5">>, <<"5", ",", "0">>, <<"i", "n", "f">>, <<"a">> }

\* lines of the files that get comment lines prepended
PrependLines == { HashLine, <<"a", ",", "5">>, <<"a", ",", "1", "0">> }

FilesOver(lines, n) == UNION {[1..m -> lines] : m \in 0..n}

\* k lines beginning with '#' put before a file
RECURSIVE Prepend(_, _)
Prepend(k, file) == IF k = 0 THEN file ELSE <<HashLine>> \o Prepend(k - 1, file)

(***************************************************************************)
(* State.                                                                  *)
(***************************************************************************)
VARIABLES
    disk,        \* path -> file content
    obj,         \* path -> the NumericCsvResult constructed for it
    plan,        \* the compare calls the caller still makes, in order
    pc,          \* "idle" | "read" (top of the while loop) | "cells"
    cand, ref,   \* self.fpath and ref.fpath of the running call
    f, f_ref,    \* the two handles: [open, pos], pos in lines
    row, row_ref, i, delta,
    n_cells, max_delta, avg_delta,
    log          \* the calls that returned: value, logged message, n_cells

vars == <<disk, obj, plan, pc, cand, ref, f, f_ref, row, row_ref, i, delta,
          n_cells, max_delta, avg_delta, log>>

Paths == DOMAIN disk

NoValue == [max |-> NaN, avg |-> NaN]

InitCall ==
    /\ obj = [p \in Paths |-> NotSniffed]
    /\ pc = "idle"
    /\ cand = 0 /\ ref = 0
    /\ f = Closed /\ f_ref = Closed
    /\ row = <<>> /\ row_ref = <<>> /\ i = 0 /\ delta = Zero
    /\ n_cells = 0 /\ max_delta = Zero /\ avg_delta = Zero
    /\ log = {}

\* two files, the first compared to the second
InitOver(lines) ==
    /\ disk \in [1..2 -> FilesOver(lines, MaxLines)]
    /\ plan = << <<1, 2>> >>
    /\ InitCall

Init == InitOver(Lines)

InitNumeric == InitOver(NumericLines)

InitCells == InitOver(CellLines)

\* one file, compared to itself
InitSelf ==
    /\ disk \in [1..1 -> FilesOver(SelfLines, MaxLines)]
    /\ plan = << <<1, 1>> >>
    /\ InitCall

\* files A and B, and A with k comment lines prepended; A and A' are each
\* compared to B, and B to each of them
InitPrepend ==
    /\ \E A \in FilesOver(PrependLines, MaxLines),
          B \in FilesOver(PrependLines, MaxLines), k \in 0..MaxPrepend :
         disk = <<A, B, Prepend(k, A)>>
    /\ plan = << <<1, 2>>, <<3, 2>>, <<2, 1>>, <<2, 3>> >>
    /\ InitCall

\* NumericCsvResult(fpath): the constructor runs _identify_format; the
\* caller constructs its descriptors in the order of the paths
Construct(p) ==
    /\ pc = "idle"
    /\ ~obj[p].sniffed
    /\ \A q \in 1..(p - 1) : obj[q].sniffed
    /\ \E sn \in SniffResults(Sample(disk[p])), hh \in HasHeaderResults :
         LET o == IdentifyFormat(disk[p], sn, hh)
         IN  /\ \A q \in Paths :
                   obj[q].sniffed /\ Sample(disk[q]) = Sample(disk[p])
                       => /\ obj[q].dialect = o.dialect
                          /\ obj[q].n_header_lines - HashLines(disk[q])
                                = o.n_header_lines - HashLines(disk[p])
             /\ obj' = [obj EXCEPT ![p] = o]
    /\ UNCHANGED <<disk, plan, pc, cand, ref, f, f_ref, row, row_ref, i, delta,
                   n_cells, max_delta, avg_delta, log>>

\* a return (or an exception) out of the with block
Return(c, r, val, msg, raised) ==
    /\ log' = log \cup {[cand |-> c, ref |-> r, val |-> val, msg |-> msg,
                          raised |-> raised, n_cells |-> n_cells]}
    /\ pc' = "idle"
    /\ f' = Exit(f) /\ f_ref' = Exit(f_ref)
    /\ cand' = 0 /\ ref' = 0
    /\ row' = <<>> /\ row_ref' = <<>> /\ i' = 0 /\ delta' = Zero
    /\ n_cells' = 0 /\ max_delta' = Zero /\ avg_delta' = Zero

\* self.compare(ref) up to the while loop: lines 68-82
Compare(c, r) ==
    /\ pc = "idle"
    /\ plan # <<>> /\ Head(plan) = <<c, r>>
    /\ obj[c].sniffed /\ obj[r].sniffed
    /\ plan' = Tail(plan)
    /\ LET s     == SkipHeader(disk[c], obj[c].n_header_lines)
           s_ref == SkipHeader(disk[r], obj[r].n_header_lines)
       IN  IF s.stop \/ s_ref.stop
           THEN \* next(f) raises StopIteration
                Return(c, r, NoValue, "StopIteration", TRUE)
           ELSE /\ cand' = c /\ ref' = r
                /\ f' = Open(s.pos)
                /\ f_ref' = Open(s_ref.pos)
                /\ pc' = "read"
                /\ n_cells' = 0 /\ max_delta' = Zero /\ avg_delta' = Zero
                /\ UNCHANGED <<row, row_ref, i, delta, log>>
    /\ UNCHANGED <<disk, obj>>

\* next(rdr): a row, csv.Error or StopIteration
NextRow(path, handle) ==
    IF handle.pos >= Len(disk[path])
    THEN [eof |-> TRUE, err |-> FALSE, row |-> <<>>]
    ELSE LET rr == ReaderRow(disk[path][handle.pos + 1], obj[path].dialect)
         IN  [eof |-> FALSE, err |-> rr.err, row |-> rr.row]

\* one pass of the while loop up to the for loop: lines 83-113, and 146-148
ReadRows ==
    /\ pc = "read"
    /\ LET a    == NextRow(cand, f)
           b    == NextRow(ref, f_ref)
           step == RowStep(a, b)
       IN  IF step = "eof"
           THEN Return(cand, ref, Finish(max_delta, avg_delta, n_cells),
                       "", FALSE)
           ELSE IF step # ""
           THEN Return(cand, ref, FAILURE, step, FALSE)
           ELSE /\ row' = a.row /\ row_ref' = b.row /\ i' = 0
                /\ f' = [f EXCEPT !.pos = @ + 1]
                /\ f_ref' = [f_ref EXCEPT !.pos = @ + 1]
                /\ pc' = IF Len(a.row) = 0 THEN "read" ELSE "cells"
                /\ UNCHANGED <<cand, ref, delta, n_cells, max_delta,
                               avg_delta, log>>
    /\ UNCHANGED <<disk, obj, plan>>

\* one pass of the for loop: lines 115-144
CompareCell ==
    /\ pc = "cells"
    /\ LET st == CellStep(row[i + 1], row_ref[i + 1])
       IN  IF st.kind = "fail"
           THEN Return(cand, ref, FAILURE, st.msg, FALSE)
           ELSE /\ IF st.kind = "num"
                   THEN /\ delta' = st.delta
                        /\ max_delta' = PyMax(st.delta, max_delta)
                        /\ avg_delta' = FAdd(avg_delta, st.delta)
                        /\ n_cells' = n_cells + 1
                   ELSE UNCHANGED <<delta, max_delta, avg_delta, n_cells>>
                /\ i' = i + 1
                /\ pc' = IF i + 1 < Len(row) THEN "cells" ELSE "read"
                /\ UNCHANGED <<cand, ref, f, f_ref, row, row_ref, log>>
    /\ UNCHANGED <<disk, obj, plan>>

Next ==
    \/ \E p \in Paths : Construct(p)
    \/ \E c \in Paths, r \in Paths : Compare(c, r)
    \/ ReadRows
    \/ CompareCell

Spec == Init /\ [][Next]_vars

SpecNumeric == InitNumeric /\ [][Next]_vars

SpecCells == InitCells /\ [][Next]_vars

SpecSelf == InitSelf /\ [][Next]_vars

SpecPrepend == InitPrepend /\ [][Next]_vars

(***************************************************************************)
(* The data a call walks, read off the files and the sniffed descriptors.  *)
(***************************************************************************)
\* the number of rows left after the header lines of p are skipped
DataRows(p) == Len(disk[p]) - obj[p].n_header_lines

\* the j-th data row of p, as its own dialect parses it
RowAt(p, j) == ReaderRow(disk[p][obj[p].n_header_lines + j], obj[p].dialect)

\* the row pairs both files have
CommonRows(c, r) == 1..Min(DataRows(c), DataRows(r))

IsNumeric(s) == ParseFloat(s).ok

\* the positions <<row, column>> where both files hold a number
NumPairs(c, r) ==
    {jc \in UNION {{<<j, col>> : col \in 1..Min(Len(RowAt(c, j).row),
                                                 Len(RowAt(r, j).row))} :
                      j \in CommonRows(c, r)} :
        /\ IsNumeric(RowAt(c, jc[1]).row[jc[2]])
        /\ IsNumeric(RowAt(r, jc[1]).row[jc[2]])}

CellVal(p, jc) == ParseFloat(RowAt(p, jc[1]).row[jc[2]]).val

DeltaAt(c, r, jc) == Delta(CellVal(c, jc), CellVal(r, jc))

RECURSIVE SumDeltas(_, _, _)
SumDeltas(c, r, S) ==
    IF S = {} THEN Zero
    ELSE LET jc == CHOOSE x \in S : TRUE
         IN  FAdd(DeltaAt(c, r, jc), SumDeltas(c, r, S \ {jc}))

StartsWithHash(line) == line # <<>> /\ Head(line) = "#"

\* the number of lines at the start of the file that begin with '#'
LeadingHash(file) ==
    Cardinality({j \in 1..Len(file) : \A m \in 1..j : StartsWithHash(file[m])})

\* a numeric pair whose relative deviation is exactly 999.9
PenaltyPair(c, r) ==
    \/ IsZero(r) /\ ~IsZero(c)
    \/ /\ c.k = "fin" /\ r.k = "fin" /\ ~IsZero(r)
       /\ 10 * AbsInt(c.n * r.d - r.n * c.d) = 9999 * AbsInt(r.n) * c.d

\* a cell pair the comparison cannot score
BadPair(s, t) ==
    \/ IsNumeric(s) # IsNumeric(t)
    \/ ~IsNumeric(s) /\ ~IsNumeric(t) /\ Strip(s) # Strip(t)

\* a row pair of different lengths, or with a cell pair that cannot be scored
RowBad(x, y) ==
    \/ Len(x) # Len(y)
    \/ \E col \in 1..Len(x) : BadPair(x[col], y[col])

\* the call e returned a value (it raised nothing)
Returned(e) == ~e.raised

\* the call e walked to the end of both files without aborting
Completed(e) == ~e.raised /\ e.msg = ""

(***************************************************************************)
(* C1: if the two files have different numbers of data rows, compare       *)
(* returns exactly (999.9, 999.9) and raises nothing, whichever side is    *)
(* shorter and whatever was accumulated before; the row-count failure is   *)
(* reported only when the numbers differ (both sides ending together does  *)
(* not force the sentinel).                                                *)
(***************************************************************************)
C1_RowCountMismatch ==
    \A e \in log :
        /\ DataRows(e.cand) # DataRows(e.ref)
              => Returned(e) /\ e.val = FAILURE
        /\ e.msg = "different # rows" => DataRows(e.cand) # DataRows(e.ref)
        /\ DataRows(e.cand) = 0 /\ DataRows(e.ref) = 0
              => Completed(e) /\ e.val = [max |-> Zero, avg |-> Zero]

\* the candidate ended first, after a numeric row pair had been accumulated
C1_Witness ==
    \E e \in log :
        /\ DataRows(e.cand) < DataRows(e.ref)
        /\ e.msg = "different # rows"
        /\ e.n_cells > 0
        /\ e.val = FAILURE

(***************************************************************************)
(* C2: if some row pair has different lengths, or a number against a text  *)
(* in one column, or two texts whose trimmed strings differ, compare       *)
(* returns exactly (999.9, 999.9) whatever was accumulated; the cells of a *)
(* row pair are compared only when the two rows have the same length.      *)
(***************************************************************************)
C2_MismatchAborts ==
    /\ \A e \in log :
          (\E j \in CommonRows(e.cand, e.ref) :
               /\ ~RowAt(e.cand, j).err /\ ~RowAt(e.ref, j).err
               /\ RowBad(RowAt(e.cand, j).row, RowAt(e.ref, j).row))
              => Returned(e) /\ e.val = FAILURE /\ e.msg # ""
    /\ pc = "cells" => Len(row) = Len(row_ref) /\ i < Len(row)
    /\ \A e \in log :
          e.msg \in {"different # columns", "String mismatch",
                     "Incompatible value types"} => e.val = FAILURE

\* a type mismatch met after a numeric cell pair had been accumulated
C2_Witness ==
    \E e \in log :
        /\ e.msg = "Incompatible value types"
        /\ e.n_cells > 0
        /\ e.val = FAILURE

(***************************************************************************)
(* C3: the deviation d of a numeric cell pair (c, r) is 0 when c = r = 0,  *)
(* 999.9 when r = 0 and c # 0, and |c - r| / |r| otherwise (1 for c = 10,  *)
(* r = 5, and for c = 0, r # 0); d is never negative.                      *)
(***************************************************************************)
C3_Deviation ==
    (pc # "idle" /\ i >= 1 /\ IsNumeric(row[i]) /\ IsNumeric(row_ref[i])) =>
        LET c == ParseFloat(row[i]).val
            r == ParseFloat(row_ref[i]).val
        IN  /\ IsZero(c) /\ IsZero(r) => delta = Zero
            /\ IsZero(r) /\ ~IsZero(c) => delta = Penalty
            /\ ~IsZero(r) => delta = FDiv(FAbs(FSub(c, r)), FAbs(r))
            /\ (c.k = "fin" /\ r.k = "fin" /\ ~IsZero(r)) =>
                  /\ delta.k = "fin"
                  /\ delta.n * AbsInt(r.n) * c.d
                        = AbsInt(c.n * r.d - r.n * c.d) * delta.d
            /\ c = Fin(10, 1) /\ r = Fin(5, 1) => delta = Fin(1, 1)
            /\ IsZero(c) /\ r.k = "fin" /\ ~IsZero(r) => delta = Fin(1, 1)
            /\ delta.n >= 0

\* a candidate below a negative reference has just been scored
C3_Witness ==
    /\ pc # "idle" /\ i >= 1
    /\ IsNumeric(row[i]) /\ IsNumeric(row_ref[i])
    /\ ParseFloat(row[i]).val = Fin(-5, 1)
    /\ ParseFloat(row_ref[i]).val = Fin(10, 1)
    /\ delta = Fin(3, 2)

(***************************************************************************)
(* C4: a walk that completes returns (max, mean): max the largest          *)
(* deviation over all numeric cell pairs (0 if none), mean their sum       *)
(* divided by their number (0 if none); text pairs add nothing; and        *)
(* 0 <= mean <= max.                                                       *)
(***************************************************************************)
C4_Aggregation ==
    \A e \in log :
        Completed(e) =>
            LET S == NumPairs(e.cand, e.ref)
            IN  /\ e.n_cells = Cardinality(S)
                /\ IF S = {}
                   THEN e.val = [max |-> Zero, avg |-> Zero]
                   ELSE /\ \E jc \in S : e.val.max = DeltaAt(e.cand, e.ref, jc)
                        /\ \A jc \in S :
                              FGe(e.val.max, DeltaAt(e.cand, e.ref, jc))
                        /\ e.val.avg = FDiv(SumDeltas(e.cand, e.ref, S),
                                            Fin(Cardinality(S), 1))
                /\ FGe(e.val.avg, Zero)
                /\ FGe(e.val.max, e.val.avg)

(***************************************************************************)
(* C5: a file of purely numeric content compared with itself returns       *)
(* (0.0, 0.0): nothing aborts and every deviation is 0.                    *)
(***************************************************************************)
PurelyNumeric(p) ==
    \A j \in 1..DataRows(p) :
        /\ ~RowAt(p, j).err
        /\ \A col \in 1..Len(RowAt(p, j).row) : IsNumeric(RowAt(p, j).row[col])

C5_SelfCompare ==
    \A e \in log :
        e.cand = e.ref /\ PurelyNumeric(e.cand)
            => Completed(e) /\ e.val = [max |-> Zero, avg |-> Zero]

(***************************************************************************)
(* C6: if A' is A with k lines beginning with '#' put before it, sniffing  *)
(* A' gives the dialect of A and a header count larger by exactly k, and   *)
(* compare(A', B), compare(B, A') return what compare(A, B), compare(B, A) *)
(* return.  (disk = <<A, B, A'>>.)                                         *)
(***************************************************************************)
C6_PrependedComments ==
    LET k == Len(disk[3]) - Len(disk[1])
    IN  /\ obj[1].sniffed /\ obj[3].sniffed =>
              /\ obj[3].dialect = obj[1].dialect
              /\ obj[3].n_header_lines = obj[1].n_header_lines + k
        /\ \A e \in log, e3 \in log :
              \/ e.cand = 1 /\ e3.cand = 3 /\ e.ref = 2 /\ e3.ref = 2
              \/ e.ref = 1 /\ e3.ref = 3 /\ e.cand = 2 /\ e3.cand = 2
              => /\ Returned(e) /\ Returned(e3)
                 /\ e.val = e3.val

\* both compare(A, B) and compare(A', B) completed on data with a non-zero
\* score, A' having comment lines A has not
C6_Witness ==
    \E e \in log, e3 \in log :
        /\ e.cand = 1 /\ e3.cand = 3 /\ e.ref = 2 /\ e3.ref = 2
        /\ Len(disk[3]) > Len(disk[1])
        /\ Completed(e3) /\ e3.n_cells > 0
        /\ e3.val.max # Zero

C8_NoHashLineWalked ==
    pc # "idle" =>
        /\ f.pos > obj[cand].n_header_lines
              => ~StartsWithHash(disk[cand][f.pos])
        /\ f_ref.pos > obj[ref].n_header_lines
              => ~StartsWithHash(disk[ref][f_ref.pos])

(***************************************************************************)
(* C8 amended: the lines beginning with '#' at the start of a file, before *)
(* its first line that does not begin with '#', are header lines: every    *)
(* one of them is counted in header_line_count and none is ever walked by  *)
(* compare as a data row.                                                  *)
(***************************************************************************)
C8_LeadingHashSkipped ==
    /\ \A p \in Paths :
          obj[p].sniffed => obj[p].n_header_lines >= LeadingHash(disk[p])
    /\ pc # "idle" =>
          /\ f.pos >= LeadingHash(disk[cand])
          /\ f_ref.pos >= LeadingHash(disk[ref])

\* a row is being compared in a candidate that starts with a comment line
C8_Witness ==
    /\ pc = "cells"
    /\ LeadingHash(disk[cand]) >= 1
    /\ f.pos > LeadingHash(disk[cand])

(***************************************************************************)
(* C9: after sniffing, 0 <= header_line_count <= number of lines; it is h  *)
(* or h + 1, h the number of leading '#' lines, and h + 1 only when the    *)
(* sample has more than one token and the delimiter was inferred           *)
(* (otherwise the dialect is the default); so the header skip of compare   *)
(* never runs past the end of the file.                                    *)
(***************************************************************************)
C9_HeaderCount ==
    /\ \A p \in Paths :
          obj[p].sniffed =>
              LET h == LeadingHash(disk[p])
                  n == obj[p].n_header_lines
              IN  /\ 0 <= n /\ n <= Len(disk[p])
                  /\ n \in {h, h + 1}
                  /\ n = h + 1 =>
                        /\ TokenCount(Sample(disk[p]), FALSE) > 1
                        /\ obj[p].dialect.name = "sniffed"
                        /\ obj[p].dialect.delimiter \in Candidates
                  /\ obj[p].dialect.name # "sniffed" => obj[p].dialect = Excel
                  /\ Len(disk[p]) = 0 => n = 0 /\ obj[p].dialect = Excel
    /\ \A e \in log : ~e.raised

\* a header line inferred by the heuristic, and a compare that skipped it
C9_Witness ==
    \E e \in log :
        /\ obj[e.cand].n_header_lines = LeadingHash(disk[e.cand]) + 1
        /\ Completed(e)
        /\ e.n_cells > 0

(***************************************************************************)
(* C10: every call of compare terminates, and whenever compare has         *)
(* returned (normally, on a mismatch or on a parse error) both handles are *)
(* closed.  Termination: while a call runs it is at a step it can take    *)
(* (the while loop or a cell of the current row), and every step that does *)
(* not return decreases Remaining, a natural number; the handles are open  *)
(* exactly while the call runs.                                            *)
(***************************************************************************)
\* more than the number of cells of any row of p
RowBound(p) == 2 + Len(Flatten(disk[p]))

\* the cells and rows the running call has still to pass
Remaining ==
    (Len(disk[cand]) - f.pos) * RowBound(cand)
        + (IF pc = "cells" THEN Len(row) - i ELSE 0)

C10_TerminatesAndReleases ==
    /\ [](pc = "idle" => ~f.open /\ ~f_ref.open)
    /\ [](pc # "idle" => /\ f.open /\ f_ref.open
                         /\ Remaining >= 0
                         /\ pc \in {"read", "cells"}
                         /\ pc = "cells" => i < Len(row) /\ i < Len(row_ref))
    /\ [][pc # "idle" /\ pc' # "idle" => Remaining' < Remaining]_vars
    /\ [][pc # "idle" /\ pc' = "idle" =>
            \E e \in log' \ log : e.val = FAILURE \/ e.msg = ""]_vars

\* compare returned on a parse error, with both handles closed
C10_Witness ==
    \E e \in log :
        /\ e.msg = "Problem reading ref"
        /\ e.n_cells > 0
        /\ pc = "idle" /\ ~f.open /\ ~f_ref.open

=============================================================================
